---- MODULE Spec2Model ----
(***************************************************************************)
(* Model of mcp_starter.py: an MCP server ("AI Email Assistant Suite")     *)
(* that protects five registered tools with one bearer secret and forwards *)
(* the four email tools to a text-generation provider through              *)
(* asyncio.to_thread.                                                      *)
(*                                                                         *)
(* Strings are sequences of one-character strings.  The request pipeline   *)
(* around the handlers (bearer gate, tool lookup, binding of the argument  *)
(* map to the handler's signature, conversion of a raised error into an    *)
(* error result) is what FastMCP(..., auth=...) and @mcp.tool install; it  *)
(* is modelled by its effect on the handlers this file registers.          *)
(***************************************************************************)
EXTENDS Integers, Sequences, FiniteSets, TLC

VARIABLES TOKEN, MY_NUMBER, GOOGLE_API_KEY, serving, inv

vars == <<TOKEN, MY_NUMBER, GOOGLE_API_KEY, serving, inv>>

(***************************************************************************)
(* Bounds of the model.                                                    *)
(***************************************************************************)
NumInv == 3        \* invocations that can be outstanding at once
MaxWorkers == 1    \* worker threads of the executor behind asyncio.to_thread
MaxTokLen == 2     \* length of bearer tokens (configured and presented)
MaxNumLen == 2     \* length of the identity value MY_NUMBER
MaxArgs == 2       \* number of names in a request's argument map
MaxExcLen == 1     \* length of the text carried by a provider exception

Inv == 1..NumInv

(***************************************************************************)
(* Strings.                                                                *)
(***************************************************************************)
Strs(alphabet, n) == UNION {[1..k -> alphabet] : k \in 0..n}

\* os.environ.get(name) of a variable that is not set
None == <<"<None>">>

\* Python truthiness of an str | None value
Truthy(s) == s # None /\ s # <<>>

\* `sub in s` for Python strings
Contains(s, sub) ==
    \E k \in 0..(Len(s) - Len(sub)) : SubSeq(s, k + 1, k + Len(sub)) = sub

TokenValues == Strs({"s"}, MaxTokLen)
NumberValues == Strs({"+", "1"}, MaxNumLen)
KeyValues == {<<"k">>}
ExcTexts == Strs({"k", "x"}, MaxExcLen)

\* str.lstrip(chars) with a one-character chars argument, one character removed
lstrip_OneChar(s, ch) ==
    IF s # <<>> /\ Head(s) = ch THEN Tail(s) ELSE s

\* str.lstrip(chars) with a one-character chars argument
RECURSIVE lstrip(_, _)
lstrip(s, ch) ==
    IF s # <<>> /\ Head(s) = ch THEN lstrip(Tail(s), ch) ELSE s

(***************************************************************************)
(* SimpleBearerAuthProvider.  The grant is an optional value: the empty    *)
(* set is Python's None, a singleton is the AccessToken returned.          *)
(***************************************************************************)
AccessToken(token) ==
    [token |-> token, client_id |-> "puch-client", scopes |-> {"*"}]

\* a validator that compares only a prefix of the presented token
load_access_token_Prefix(self_token, token) ==
    IF Len(token) >= Len(self_token)
       /\ SubSeq(token, 1, Len(self_token)) = self_token
    THEN {AccessToken(token)} ELSE {}

\* SimpleBearerAuthProvider(self_token).load_access_token(token)
load_access_token(self_token, token) ==
    IF token = self_token THEN {AccessToken(token)} ELSE {}

(***************************************************************************)
(* The tools registered with @mcp.tool and the parameters of each          *)
(* handler's signature (all of type str, none with a default).             *)
(***************************************************************************)
Registry ==
    [validate            |-> {},
     analyze_email_tone  |-> {"email_draft"},
     rewrite_email       |-> {"email_draft", "target_tone"},
     shorten_email       |-> {"email_draft"},
     expand_from_bullets |-> {"bullet_points", "goal"}]

EmailTools == DOMAIN Registry \ {"validate"}

\* a lookup that falls back to a registered tool for an unknown name
Lookup_Fallback(name) ==
    IF name \in DOMAIN Registry THEN {name} ELSE {"validate"}

\* lookup of a tool by name among the registered tools (optional value)
Lookup(name) ==
    IF name \in DOMAIN Registry THEN {name} ELSE {}

\* a binding that leaves a missing parameter unset instead of failing
BindErrors_MissingAllowed(params, args) ==
    {[type |-> "unexpected_keyword_argument", loc |-> a] : a \in args \ params}

\* a binding that drops the names the signature does not have
BindErrors_ExtraDropped(params, args) ==
    {[type |-> "missing_argument", loc |-> p] : p \in params \ args}

\* binding an argument map (its set of names) to a handler's parameters:
\* the errors of the binding, empty when the call can be made
BindErrors(params, args) ==
    {[type |-> "missing_argument", loc |-> p] : p \in params \ args}
    \cup {[type |-> "unexpected_keyword_argument", loc |-> a] : a \in args \ params}

(***************************************************************************)
(* Provider exceptions and the error built from them.                      *)
(***************************************************************************)
\* classes of the failures a provider call raises: a timeout, a network
\* error, a response without text (response.text raises ValueError)
ExcClasses == {"TimeoutError", "ConnectionError", "ValueError"}

Excs == [cls : ExcClasses, text : ExcTexts]

\* what constructing genai.GenerativeModel can raise
CtorExcs == {e \in Excs : e.cls = "ValueError"}

NoExc == [cls |-> "none", text |-> <<>>]

\* repr(e) of an exception with one string argument
Repr(e) == <<e.cls, "(", "'">> \o e.text \o <<"'", ")">>

\* an except clause that names one class only
CaughtByExcept_TimeoutOnly(e) == e.cls = "TimeoutError"

\* `except Exception`: every class of ExcClasses derives from Exception
CaughtByExcept(e) == e.cls \in ExcClasses

\* the message of the McpError raised by make_gemini_call
ErrorMessage(e) == <<"Failed to process with Google AI: ">> \o Repr(e)

(***************************************************************************)
(* Invocations.  inv[i] is one tool call in flight:                        *)
(*   pc     where it stands: idle, received, authed, queued (handed to     *)
(*          the executor), in_thread (do_generate running), thread_ok,     *)
(*          thread_exc (do_generate finished), done                        *)
(*   tool, args, token   the request: tool name, names of the argument     *)
(*          map, presented bearer token                                    *)
(*   grant  what load_access_token returned for the presented token        *)
(*   ret, exc   what do_generate returned or raised                        *)
(*   result the response                                                   *)
(*   handlerRuns, calls   how often the tool's handler was entered and how *)
(*          often make_gemini_call was entered for this invocation         *)
(***************************************************************************)
NoResult == [kind |-> "none", text |-> <<>>]

Success(text) == [kind |-> "Success", text |-> text]

Failure(kind, text) == [kind |-> kind, text |-> text]

Idle ==
    [pc |-> "idle", tool |-> "", args |-> {}, token |-> <<>>,
     grant |-> {}, ret |-> <<>>, exc |-> NoExc, result |-> NoResult,
     handlerRuns |-> 0, calls |-> 0]

ToolNames == DOMAIN Registry \cup {"analyze_and_rewrite"}
ArgNames == {"email_draft", "target_tone", "bullet_points", "goal", "cc"}
ArgMaps == {a \in SUBSET ArgNames : Cardinality(a) <= MaxArgs}
ProviderTexts == {<<"o", "k">>}

\* the inline alternative to asyncio.to_thread: do_generate() called on the loop
RunsOffLoop_Inline == FALSE

\* do_generate runs through asyncio.to_thread, in a worker thread of the
\* loop's default executor, and not on the event loop
RunsOffLoop == TRUE

\* the invocations whose do_generate occupies a worker thread
Busy == {j \in Inv : inv[j].pc = "in_thread"}

\* the event loop is held by a blocking call of another invocation
LoopBlocked(i) == ~RunsOffLoop /\ (Busy \ {i}) # {}

\* the body of validate()
validate(number) ==
    IF Truthy(number) THEN lstrip(number, "+") ELSE <<>>

\* make_gemini_call after the await: retry the call once on a failure
HandleOutcome_Retry(rec) ==
    IF rec.pc = "thread_ok"
    THEN [rec EXCEPT !.pc = "done", !.result = Success(rec.ret)]
    ELSE IF rec.calls < 2
         THEN [rec EXCEPT !.pc = "queued", !.calls = @ + 1, !.exc = NoExc]
         ELSE [rec EXCEPT !.pc = "done",
                          !.result = Failure("InternalError", ErrorMessage(rec.exc))]

\* make_gemini_call after the await: return response_text, or turn the
\* exception into McpError(INTERNAL_ERROR, ...), which ends the invocation
HandleOutcome(rec) ==
    IF rec.pc = "thread_ok"
    THEN [rec EXCEPT !.pc = "done", !.result = Success(rec.ret)]
    ELSE IF CaughtByExcept(rec.exc)
         THEN [rec EXCEPT !.pc = "done",
                          !.result = Failure("InternalError", ErrorMessage(rec.exc))]
         ELSE [rec EXCEPT !.pc = "done",
                          !.result = Failure("UnhandledFault", Repr(rec.exc))]

\* an email tool's handler up to the await in make_gemini_call: the prompt
\* is built, make_gemini_call is entered, the model object is constructed
\* (ctor is what the constructor raised, NoExc if nothing) and do_generate
\* is handed to the executor
EmailHandler(rec, ctor) ==
    LET entered == [rec EXCEPT !.handlerRuns = @ + 1, !.calls = @ + 1]
    IN  IF ctor = NoExc
        THEN [entered EXCEPT !.pc = "queued"]
        ELSE HandleOutcome([entered EXCEPT !.pc = "thread_exc", !.exc = ctor])

\* a tool call behind the bearer gate: lookup, binding, handler
Dispatch(rec, ctor) ==
    IF Lookup(rec.tool) = {}
    THEN [rec EXCEPT !.pc = "done", !.result = Failure("UnknownTool", <<>>)]
    ELSE LET name == CHOOSE n \in Lookup(rec.tool) : TRUE
         IN  IF BindErrors(Registry[name], rec.args) # {}
             THEN [rec EXCEPT !.pc = "done",
                              !.result = Failure("InvalidArguments", <<>>)]
             ELSE IF name = "validate"
                  THEN [rec EXCEPT !.pc = "done", !.handlerRuns = @ + 1,
                                   !.result = Success(validate(MY_NUMBER))]
                  ELSE EmailHandler(rec, ctor)

\* a gate that leaves the reserved validate tool open
Gate_ValidateOpen(rec, grant) ==
    IF grant = {} /\ rec.tool # "validate"
    THEN [rec EXCEPT !.pc = "done", !.grant = grant,
                     !.result = Failure("AuthenticationError", <<>>)]
    ELSE [rec EXCEPT !.pc = "authed", !.grant = grant]

\* the bearer gate of a server built with auth=...: a request whose token
\* yields no grant is answered at once, whatever it asks for
Gate(rec, grant) ==
    IF grant = {}
    THEN [rec EXCEPT !.pc = "done", !.grant = grant,
                     !.result = Failure("AuthenticationError", <<>>)]
    ELSE [rec EXCEPT !.pc = "authed", !.grant = grant]

(***************************************************************************)
(* Actions.                                                                *)
(***************************************************************************)
\* module load: the three asserts, then FastMCP(..., auth=...) and the
\* registrations; the server serves only if all three values are set
Startup ==
    /\ ~serving
    /\ TOKEN # None
    /\ MY_NUMBER # None
    /\ GOOGLE_API_KEY # None
    /\ serving' = TRUE
    /\ UNCHANGED <<TOKEN, MY_NUMBER, GOOGLE_API_KEY, inv>>

\* a tools/call request arrives
Receive(i, tool, args, token) ==
    /\ serving
    /\ ~LoopBlocked(i)
    /\ inv[i].pc = "idle"
    /\ inv' = [inv EXCEPT ![i] = [Idle EXCEPT !.pc = "received", !.tool = tool,
                                               !.args = args, !.token = token]]
    /\ UNCHANGED <<TOKEN, MY_NUMBER, GOOGLE_API_KEY, serving>>

\* the bearer gate installed by auth=SimpleBearerAuthProvider(TOKEN)
Authenticate(i) ==
    /\ ~LoopBlocked(i)
    /\ inv[i].pc = "received"
    /\ inv' = [inv EXCEPT ![i] = Gate(@, load_access_token(TOKEN, @.token))]
    /\ UNCHANGED <<TOKEN, MY_NUMBER, GOOGLE_API_KEY, serving>>

\* the authenticated call is dispatched and runs up to its first suspension
CallTool(i, ctor) ==
    /\ ~LoopBlocked(i)
    /\ inv[i].pc = "authed"
    /\ inv' = [inv EXCEPT ![i] = Dispatch(@, ctor)]
    /\ UNCHANGED <<TOKEN, MY_NUMBER, GOOGLE_API_KEY, serving>>

\* a worker thread of the executor takes do_generate
ThreadStart(i) ==
    /\ inv[i].pc = "queued"
    /\ Cardinality(Busy) < MaxWorkers
    /\ inv' = [inv EXCEPT ![i].pc = "in_thread"]
    /\ UNCHANGED <<TOKEN, MY_NUMBER, GOOGLE_API_KEY, serving>>

\* generate_content returns and response.text is read
ThreadReturn(i, text) ==
    /\ inv[i].pc = "in_thread"
    /\ inv' = [inv EXCEPT ![i].pc = "thread_ok", ![i].ret = text]
    /\ UNCHANGED <<TOKEN, MY_NUMBER, GOOGLE_API_KEY, serving>>

\* generate_content or response.text raises
ThreadRaise(i, e) ==
    /\ inv[i].pc = "in_thread"
    /\ inv' = [inv EXCEPT ![i].pc = "thread_exc", ![i].exc = e]
    /\ UNCHANGED <<TOKEN, MY_NUMBER, GOOGLE_API_KEY, serving>>

\* the coroutine is resumed on the loop with the outcome of the thread
Resume(i) ==
    /\ ~LoopBlocked(i)
    /\ inv[i].pc \in {"thread_ok", "thread_exc"}
    /\ inv' = [inv EXCEPT ![i] = HandleOutcome(@)]
    /\ UNCHANGED <<TOKEN, MY_NUMBER, GOOGLE_API_KEY, serving>>

(***************************************************************************)
(* Spec: one invocation, every request and every configuration.            *)
(***************************************************************************)
Init ==
    /\ TOKEN \in TokenValues \cup {None}
    /\ MY_NUMBER \in NumberValues \cup {None}
    /\ GOOGLE_API_KEY \in KeyValues \cup {None}
    /\ serving = FALSE
    /\ inv = [i \in Inv |-> Idle]

Next ==
    \/ Startup
    \/ \E tool \in ToolNames, args \in ArgMaps, token \in TokenValues :
          Receive(1, tool, args, token)
    \/ Authenticate(1)
    \/ \E ctor \in {NoExc} \cup CtorExcs : CallTool(1, ctor)
    \/ ThreadStart(1)
    \/ \E text \in ProviderTexts : ThreadReturn(1, text)
    \/ \E e \in Excs : ThreadRaise(1, e)
    \/ Resume(1)

Spec == Init /\ [][Next]_vars

(***************************************************************************)
(* SpecConc: NumInv invocations at once over one executor, one             *)
(* configuration, the requests that differ in needing a provider call.     *)
(***************************************************************************)
ConcExcs == {[cls |-> "TimeoutError", text |-> <<"x">>]}

InitConc ==
    /\ TOKEN = <<"s">>
    /\ MY_NUMBER = <<"+", "1">>
    /\ GOOGLE_API_KEY = <<"k">>
    /\ serving = FALSE
    /\ inv = [i \in Inv |-> Idle]

NextConc ==
    \/ Startup
    \/ \E i \in Inv, tool \in {"validate", "shorten_email"},
          args \in {{}, {"email_draft"}} :
          Receive(i, tool, args, TOKEN)
    \/ \E i \in Inv : Authenticate(i)
    \/ \E i \in Inv, ctor \in {NoExc} \cup ConcExcs : CallTool(i, ctor)
    \/ \E i \in Inv : ThreadStart(i)
    \/ \E i \in Inv, text \in ProviderTexts : ThreadReturn(i, text)
    \/ \E i \in Inv, e \in ConcExcs : ThreadRaise(i, e)
    \/ \E i \in Inv : Resume(i)

SpecConc == InitConc /\ [][NextConc]_vars

(***************************************************************************)
(* Properties.                                                             *)
(***************************************************************************)
\* the invocation has passed the bearer gate's decision
Decided(i) == inv[i].pc \notin {"idle", "received"}

\* the invocation has been dispatched (it is past lookup and binding)
Dispatched(i) == inv[i].pc \notin {"idle", "received", "authed"}

Ended(i, kind) == inv[i].pc = "done" /\ inv[i].result.kind = kind

NotEntered(i) == inv[i].handlerRuns = 0 /\ inv[i].calls = 0

\* C1: an invocation whose presented token is not the configured secret ends
\* in Failure{AuthenticationError} as soon as the gate has decided, whatever
\* its tool name and arguments, and neither a handler nor make_gemini_call
\* is entered for it.
T_C1 ==
    \A i \in Inv :
        Decided(i) /\ inv[i].token # TOKEN
        => Ended(i, "AuthenticationError") /\ NotEntered(i)

W_C1 ==
    \E i \in Inv :
        /\ inv[i].token # TOKEN
        /\ inv[i].tool = "rewrite_email"
        /\ inv[i].args = {"email_draft", "target_tone"}
        /\ Ended(i, "AuthenticationError")

\* C2: load_access_token returns a grant exactly when the presented token
\* equals the configured secret, the grant carries that token, and every
\* other string (the empty one included) gets none; for every secret the
\* startup asserts accept.
T_C2 ==
    \A i \in Inv :
        Decided(i)
        => /\ (inv[i].grant # {}) <=> (inv[i].token = TOKEN)
           /\ inv[i].grant \subseteq {AccessToken(TOKEN)}

W_C2 ==
    \E i \in Inv :
        /\ Decided(i)
        /\ TOKEN # <<>>
        /\ inv[i].token = <<>>
        /\ inv[i].grant = {}

\* C3: with a valid credential, a tool name that is not registered ends in
\* Failure{UnknownTool} and no handler and no provider call is entered.
T_C3 ==
    \A i \in Inv :
        Dispatched(i) /\ inv[i].token = TOKEN /\ inv[i].tool \notin DOMAIN Registry
        => Ended(i, "UnknownTool") /\ NotEntered(i)

W_C3 ==
    \E i \in Inv :
        /\ inv[i].token = TOKEN
        /\ inv[i].tool = "analyze_and_rewrite"
        /\ Ended(i, "UnknownTool")

\* C4: an authenticated invocation of a registered tool whose argument map
\* lacks a required parameter ends in Failure{InvalidArguments} without the
\* handler having run: no provider call is made for it.
T_C4 ==
    \A i \in Inv :
        /\ Dispatched(i)
        /\ inv[i].token = TOKEN
        /\ inv[i].tool \in DOMAIN Registry
        /\ Registry[inv[i].tool] \ inv[i].args # {}
        => Ended(i, "InvalidArguments") /\ NotEntered(i)

W_C4 ==
    \E i \in Inv :
        /\ inv[i].token = TOKEN
        /\ inv[i].tool = "rewrite_email"
        /\ inv[i].args = {"email_draft"}
        /\ Ended(i, "InvalidArguments")

\* C5: an authenticated invocation of a registered tool whose argument map
\* holds a name that is no parameter of the tool ends in
\* Failure{InvalidArguments} and the handler is not run; the extra argument
\* is neither dropped nor passed through.
T_C5 ==
    \A i \in Inv :
        /\ Dispatched(i)
        /\ inv[i].token = TOKEN
        /\ inv[i].tool \in DOMAIN Registry
        /\ inv[i].args \ Registry[inv[i].tool] # {}
        => Ended(i, "InvalidArguments") /\ NotEntered(i)

W_C5 ==
    \E i \in Inv :
        /\ inv[i].token = TOKEN
        /\ inv[i].tool = "shorten_email"
        /\ inv[i].args = {"email_draft", "cc"}
        /\ Ended(i, "InvalidArguments")

\* C6: when the provider call of an invocation raised (constructing the
\* model, generate_content, reading response.text), the invocation ends in
\* Failure{InternalError} and in no other kind.
T_C6 ==
    \A i \in Inv :
        inv[i].exc # NoExc
        => /\ inv[i].pc \in {"thread_exc", "done"}
           /\ inv[i].pc = "done" => inv[i].result.kind = "InternalError"

W_C6 ==
    \E i \in Inv :
        /\ inv[i].exc.cls = "ConnectionError"
        /\ Ended(i, "InternalError")

\* C7: the message of a Failure{InternalError} contains neither the
\* configured provider API key nor the configured bearer secret.
CE_C7 ==
    \A i \in Inv :
        Ended(i, "InternalError")
        => /\ ~Contains(inv[i].result.text, GOOGLE_API_KEY)
           /\ TOKEN # <<>> => ~Contains(inv[i].result.text, TOKEN)

\* the steps the server itself takes for invocation i
ServerStep(i) ==
    \/ Authenticate(i)
    \/ CallTool(i, NoExc)
    \/ ThreadStart(i)
    \/ Resume(i)

Waiting(i) ==
    inv[i].pc \in {"received", "authed", "queued", "thread_ok", "thread_exc"}

OthersInProviderCall(i) == (Busy \ {i}) # {}

T_C9 ==
    \A i \in Inv :
        inv[i].handlerRuns > 0 /\ inv[i].tool \in EmailTools
        => /\ inv[i].handlerRuns = 1
           /\ inv[i].calls = 1
           /\ inv[i].pc = "done" /\ inv[i].exc # NoExc
              => inv[i].result.kind \notin {"Success", "none"}
           /\ inv[i].pc = "done" /\ inv[i].exc = NoExc
              => inv[i].result = Success(inv[i].ret)

W_C9 ==
    \E i \in Inv :
        /\ inv[i].tool = "expand_from_bullets"
        /\ inv[i].calls = 1
        /\ inv[i].exc.cls = "TimeoutError"
        /\ Ended(i, "InternalError")

\* k times the character ch
Repeat(ch, k) == [n \in 1..k |-> ch]

ValidateAnswered(i) ==
    inv[i].tool = "validate" /\ Ended(i, "Success")

\* C10 as stated: validate returns the identity value with its leading "+"
\* character stripped.
CE_C10 ==
    \A i \in Inv :
        ValidateAnswered(i)
        => inv[i].result.text =
              IF MY_NUMBER # <<>> /\ Head(MY_NUMBER) = "+"
              THEN Tail(MY_NUMBER) ELSE MY_NUMBER

\* C10 amended: validate returns the identity value with all of its leading
\* "+" characters stripped (the empty string for an empty identity value);
\* a served identity value is never unset.
T_C10 ==
    \A i \in Inv :
        ValidateAnswered(i)
        => /\ MY_NUMBER # None
           /\ inv[i].result.text = <<>> \/ Head(inv[i].result.text) # "+"
           /\ \E k \in 0..Len(MY_NUMBER) :
                 MY_NUMBER = Repeat("+", k) \o inv[i].result.text

W_C10 ==
    \E i \in Inv :
        /\ ValidateAnswered(i)
        /\ MY_NUMBER = <<"+", "+">>
        /\ inv[i].result.text = <<>>

====
